---- MODULE Spec2Model ----
(***************************************************************************)
(* Streaming technical indicators of tzutrader (src/src/indicators).       *)
(*                                                                         *)
(* One indicator instance is exercised per behaviour: Init chooses its     *)
(* type (kind) and its const-generic parameters, and the actions are the   *)
(* calls of the Indicator trait on it (update, reset); get is a pure read  *)
(* and is an operator.  Every method is a pure operator on the instance    *)
(* record, so that a composite calls the operators of the sub-indicators   *)
(* it owns exactly where its code calls their methods.                     *)
(*                                                                         *)
(* f64 values are modelled as exact reduced fractions plus NaN and the two *)
(* infinities; Option<T> is a sequence of length 0 (None) or 1 (Some).     *)
(***************************************************************************)
EXTENDS Integers, Sequences, FiniteSets, TLC

VARIABLES
    kind,     \* type of the indicator under exercise
    ind,      \* the indicator instance (fields as in its struct)
    inputs,   \* history: values passed to update since construction/reset
    rets,     \* history: results of those update calls
    steps,    \* history: number of calls made so far
    panicked  \* a call has panicked: the thread has unwound, no call follows

vars == <<kind, ind, inputs, rets, steps, panicked>>

---------------------------------------------------------------------------
(* Bounds of the exploration *)

MaxN == 3
MaxP == 3
MaxSteps == 5

---------------------------------------------------------------------------
(* Option<T> *)

None == <<>>
Some(v) == <<v>>
is_some(o) == Len(o) = 1
is_none(o) == Len(o) = 0
unwrap(o) == o[1]
unwrap_or(o, dflt) == IF is_some(o) THEN o[1] ELSE dflt

---------------------------------------------------------------------------
(* f64: a reduced fraction n/d (d > 0), NaN, or an infinity of sign n *)

Abs(x) == IF x < 0 THEN -x ELSE x
Sign(x) == IF x < 0 THEN -1 ELSE IF x > 0 THEN 1 ELSE 0

RECURSIVE GCD(_, _)
GCD(a, b) == IF b = 0 THEN a ELSE GCD(b, a % b)

NaN == [t |-> "nan", n |-> 0, d |-> 1]
Inf(s) == [t |-> "inf", n |-> s, d |-> 1]
Frac(n, d) ==
    LET g == GCD(Abs(n), Abs(d))
        s == IF d < 0 THEN -1 ELSE 1
    IN  [t |-> "num", n |-> s * (n \div g), d |-> s * (d \div g)]
Num(i) == [t |-> "num", n |-> i, d |-> 1]

is_nan(a) == a.t = "nan"
IsNum(a) == a.t = "num"
FZero(a) == a.t = "num" /\ a.n = 0

FNeg(a) == IF a.t = "nan" THEN NaN ELSE [a EXCEPT !.n = -a.n]

FAdd(a, b) ==
    CASE a.t = "nan" \/ b.t = "nan" -> NaN
      [] a.t = "inf" /\ b.t = "inf" -> IF a.n = b.n THEN a ELSE NaN
      [] a.t = "inf" -> a
      [] b.t = "inf" -> b
      [] OTHER -> LET g == GCD(a.d, b.d)
                  IN Frac(a.n * (b.d \div g) + b.n * (a.d \div g), (a.d \div g) * b.d)

FSub(a, b) == FAdd(a, FNeg(b))

FMul(a, b) ==
    CASE a.t = "nan" \/ b.t = "nan" -> NaN
      [] a.t = "inf" \/ b.t = "inf" ->
            IF Sign(a.n) * Sign(b.n) = 0 THEN NaN ELSE Inf(Sign(a.n) * Sign(b.n))
      [] OTHER -> Frac(a.n * b.n, a.d * b.d)

FDiv(a, b) ==
    CASE a.t = "nan" \/ b.t = "nan" -> NaN
      [] a.t = "inf" /\ b.t = "inf" -> NaN
      [] a.t = "inf" -> Inf(IF b.n < 0 THEN -a.n ELSE a.n)
      [] b.t = "inf" -> Num(0)
      [] b.n = 0 -> IF a.n = 0 THEN NaN ELSE Inf(Sign(a.n))
      [] OTHER -> Frac(a.n * b.d, a.d * b.n)

\* a == b of f64: NaN equals nothing
FEq(a, b) == a.t # "nan" /\ b.t # "nan" /\ a = b

\* a < b of f64: false when either is NaN
FLt(a, b) ==
    CASE a.t = "nan" \/ b.t = "nan" -> FALSE
      [] a.t = "inf" -> a.n < 0 /\ a # b
      [] b.t = "inf" -> b.n > 0
      [] OTHER -> a.n * b.d < b.n * a.d

FGt(a, b) == FLt(b, a)

\* f64::abs and f64::max (max returns the other operand when one is NaN)
FAbs(a) == IF a.t = "nan" THEN NaN ELSE [a EXCEPT !.n = Abs(a.n)]
FMax(a, b) ==
    IF a.t = "nan" THEN b ELSE IF b.t = "nan" THEN a
    ELSE IF FLt(a, b) THEN b ELSE a

\* largest r in lo..hi with r * r <= x
RECURSIVE ISqrt(_, _, _)
ISqrt(x, lo, hi) ==
    IF lo >= hi THEN lo
    ELSE LET mid == (lo + hi + 1) \div 2
         IN  IF mid * mid <= x THEN ISqrt(x, mid, hi) ELSE ISqrt(x, lo, mid - 1)

\* f64::sqrt: NaN below zero; the root of n/d is rounded down to a multiple
\* of 1/(100 d), which is exact for the squares of such multiples
FSqrt(a) ==
    CASE a.t = "nan" -> NaN
      [] a.t = "inf" -> IF a.n > 0 THEN a ELSE NaN
      [] a.n < 0 -> NaN
      [] OTHER -> Frac(ISqrt(a.n * a.d * 10000, 0, 40000), a.d * 100)

---------------------------------------------------------------------------
(* Rust integer remainder: the sign of the dividend (b > 0 here) *)

I32Max == 2147483647
I32Min == -I32Max - 1

Rem(a, b) == IF a >= 0 THEN a % b ELSE -((-a) % b)

---------------------------------------------------------------------------
(* BaseIndicator<T, N>  (base.rs)                                          *)
(* data is the array [T; N], a sequence indexed 1..N: slot i of the code   *)
(* is data[i + 1].  cnt is a history field, not a field of the struct: the *)
(* number of appends since construction or the last reset; no method reads *)
(* it.                                                                     *)

BaseIndicator_new(N, dflt) ==
    [pos |-> -1, filled |-> FALSE, data |-> [i \in 1..N |-> dflt], cnt |-> 0]

BaseN(b) == Len(b.data)

\* update that never sets the filled flag
BaseIndicator_update_nofill(b, value) ==
    LET N == BaseN(b)
        p == IF b.pos = -1 THEN 0 ELSE Rem(b.pos + 1, N)
    IN  [self |-> [pos |-> p, filled |-> b.filled,
                   data |-> [b.data EXCEPT ![p + 1] = value],
                   cnt |-> b.cnt + 1],
         out |-> Some(value)]

\* update that sets the filled flag when the last slot is written
BaseIndicator_update_fillearly(b, value) ==
    LET N == BaseN(b)
        p == IF b.pos = -1 THEN 0 ELSE Rem(b.pos + 1, N)
        f == IF p = N - 1 THEN TRUE ELSE b.filled
    IN  [self |-> [pos |-> p, filled |-> f,
                   data |-> [b.data EXCEPT ![p + 1] = value],
                   cnt |-> b.cnt + 1],
         out |-> Some(value)]

BaseIndicator_update(b, value) ==
    LET N == BaseN(b)
        p == IF b.pos = -1 THEN 0 ELSE Rem(b.pos + 1, N)
        f == IF b.pos # -1 /\ p = 0 THEN TRUE ELSE b.filled
    IN  [self |-> [pos |-> p, filled |-> f,
                   data |-> [b.data EXCEPT ![p + 1] = value],
                   cnt |-> b.cnt + 1],
         out |-> Some(value)]

\* get that reads one slot past the one asked for
BaseIndicator_get_nextslot(b, key) ==
    LET N == BaseN(b) IN
    IF b.pos = -1 THEN None
    ELSE IF key > 0 THEN None
    ELSE IF key < -N THEN None
    ELSE IF ~b.filled /\ key < -b.pos THEN None
    ELSE Some(b.data[Rem(b.pos + N + key + 1, N) + 1])

BaseIndicator_get(b, key) ==
    LET N == BaseN(b) IN
    IF b.pos = -1 THEN None
    ELSE IF key > 0 THEN None
    ELSE IF key < -N THEN None
    ELSE IF ~b.filled /\ key < -b.pos THEN None
    ELSE Some(b.data[Rem(b.pos + N + key, N) + 1])

\* base.rs 46 (remainder by zero) and 51 (index out of bounds)
BaseIndicator_update_panics(b) ==
    \/ (b.pos # -1 /\ BaseN(b) = 0)
    \/ (IF b.pos = -1 THEN 0 ELSE Rem(b.pos + 1, BaseN(b))) >= BaseN(b)

\* base.rs 62: i32 overflow of the sum, remainder by zero, or a negative
\* remainder cast to usize and used as index
BaseIndicator_get_panics(b, key) ==
    /\ b.pos # -1
    /\ key <= 0
    /\ key >= -BaseN(b)
    /\ (b.filled \/ key >= -b.pos)
    /\ \/ BaseN(b) = 0
       \/ b.pos + BaseN(b) + key \notin 0..I32Max
       \/ Rem(b.pos + BaseN(b) + key, BaseN(b)) >= BaseN(b)

\* reset that leaves the filled flag set
BaseIndicator_reset_keepfilled(b) == [b EXCEPT !.pos = -1, !.cnt = 0]

BaseIndicator_reset(b) == [b EXCEPT !.pos = -1, !.filled = FALSE, !.cnt = 0]

---------------------------------------------------------------------------
(* A method result: the instance after the call (self) and the value      *)
(* returned (out).  The closing idiom of every update,                     *)
(*     self.data.update(v); self.data.get(0)                               *)
(* is StoreGet.                                                            *)

Unavailable(x) == [self |-> x, out |-> None]

WithData(x, d) == [self |-> [x EXCEPT !.data = d], out |-> BaseIndicator_get(d, 0)]

StoreGet(x, v) == WithData(x, BaseIndicator_update(x.data, v).self)

\* self.data.update(v) alone
Store(x, v) == [x EXCEPT !.data = BaseIndicator_update(@, v).self]

---------------------------------------------------------------------------
(* MA<P, N>  (ma.rs): rolling sum over the array prevs: [f64; P] *)

MA_new(P, N) ==
    [accum |-> Num(0), length |-> 0, data |-> BaseIndicator_new(N, Num(0)),
     prevs |-> [i \in 1..P |-> NaN], pos |-> 0]

\* ma.rs 66-74: the window and the accumulator take the new value
MA_roll(m, value) ==
    LET warm == m.length < Len(m.prevs) IN
    [m EXCEPT !.length = IF warm THEN @ + 1 ELSE @,
              !.accum = FAdd(IF warm THEN @ ELSE FSub(@, m.prevs[m.pos + 1]), value),
              !.prevs = [@ EXCEPT ![m.pos + 1] = value],
              !.pos = (@ + 1) % Len(m.prevs)]

\* a warmup call appends a NaN placeholder to the output buffer
MA_emit_sentinel(m1) ==
    IF m1.length < Len(m1.prevs)
    THEN Unavailable(Store(m1, NaN))
    ELSE StoreGet(m1, FDiv(m1.accum, Num(Len(m1.prevs))))

\* ma.rs 76-81: the result, once the window is full
MA_emit(m1) ==
    IF m1.length < Len(m1.prevs)
    THEN Unavailable(m1)
    ELSE StoreGet(m1, FDiv(m1.accum, Num(Len(m1.prevs))))

\* warmup test off by one: the first output comes one call late
MA_update_late(m, value) ==
    IF m.length < Len(m.prevs)
    THEN Unavailable(MA_roll(m, value))
    ELSE MA_emit(MA_roll(m, value))

MA_update(m, value) == MA_emit(MA_roll(m, value))

\* ma.rs 69, 72 (index out of bounds) and 79 (the buffer append)
MA_update_panics(m) ==
    \/ m.pos >= Len(m.prevs)
    \/ /\ (IF m.length < Len(m.prevs) THEN m.length + 1 ELSE m.length)
              >= Len(m.prevs)
       /\ BaseIndicator_update_panics(m.data)

MA_get(m, key) == BaseIndicator_get(m.data, key)

\* reset that leaves the running sum
MA_reset_keepaccum(m) ==
    [m EXCEPT !.length = 0, !.data = BaseIndicator_reset(@), !.pos = 0]

MA_reset(m) ==
    [m EXCEPT !.length = 0, !.accum = Num(0),
              !.data = BaseIndicator_reset(@), !.pos = 0]

---------------------------------------------------------------------------
(* EMA<P, S>  (ema.rs); P is the const generic, kept as a field *)

EMA_with_smoothing(P, S, smoothing) ==
    [P |-> P, alpha |-> FDiv(smoothing, FAdd(Num(1), Num(P))), length |-> 0,
     prev |-> Num(0), data |-> BaseIndicator_new(S, Num(0))]

EMA_new(P, S) == EMA_with_smoothing(P, S, Num(2))

\* ema.rs 51-54 and 56-58: prev takes the new average, which is stored
EMA_store(e1, p) == StoreGet([e1 EXCEPT !.prev = p], p)

\* the weights of the input and of the previous value exchanged
EMA_update_swapped(e, value) ==
    IF e.length + 1 < e.P
    THEN Unavailable([e EXCEPT !.length = @ + 1, !.prev = FAdd(@, value)])
    ELSE IF e.length + 1 = e.P
    THEN EMA_store([e EXCEPT !.length = @ + 1],
                   FDiv(FAdd(e.prev, value), Num(e.P)))
    ELSE EMA_store([e EXCEPT !.length = @ + 1],
                   FAdd(FMul(e.prev, e.alpha), FMul(value, FSub(Num(1), e.alpha))))

EMA_update(e, value) ==
    IF e.length + 1 < e.P
    THEN Unavailable([e EXCEPT !.length = @ + 1, !.prev = FAdd(@, value)])
    ELSE IF e.length + 1 = e.P
    THEN EMA_store([e EXCEPT !.length = @ + 1],
                   FDiv(FAdd(e.prev, value), Num(e.P)))
    ELSE EMA_store([e EXCEPT !.length = @ + 1],
                   FAdd(FMul(value, e.alpha), FMul(e.prev, FSub(Num(1), e.alpha))))

EMA_get(e, key) == BaseIndicator_get(e.data, key)

EMA_reset(e) ==
    [e EXCEPT !.length = 0, !.prev = Num(0), !.data = BaseIndicator_reset(@)]

---------------------------------------------------------------------------
(* MV<P, S>  (mv.rs): variance of the window around the mean of an owned MA *)

RECURSIVE SumSqDiff(_, _, _)
SumSqDiff(prevs, mean, i) ==
    IF i = 0 THEN Num(0)
    ELSE FAdd(SumSqDiff(prevs, mean, i - 1),
              FMul(FSub(prevs[i], mean), FSub(prevs[i], mean)))

MV_new(P, S) ==
    [ma |-> MA_new(P, 1), prevs |-> [i \in 1..P |-> NaN], length |-> 0,
     pos |-> 0, data |-> BaseIndicator_new(S, Num(0))]

\* mv.rs 44-50
MV_roll(m, value) ==
    [m EXCEPT !.length = IF @ < Len(m.prevs) THEN @ + 1 ELSE @,
              !.prevs = [@ EXCEPT ![m.pos + 1] = value],
              !.pos = (@ + 1) % Len(m.prevs),
              !.ma = MA_update(@, value).self]

\* mv.rs 52-63
MV_emit(m1) ==
    IF m1.length < Len(m1.prevs)
    THEN Unavailable(m1)
    ELSE StoreGet(m1, FDiv(SumSqDiff(m1.prevs, unwrap(MA_get(m1.ma, 0)),
                                     Len(m1.prevs)),
                           Num(Len(m1.prevs))))

MV_update(m, value) == MV_emit(MV_roll(m, value))

\* mv.rs 56 (unwrap of the mean) and 62, m1 being the instance after 44-50
MV_emit_panics(m1) ==
    /\ m1.length >= Len(m1.prevs)
    /\ (is_none(MA_get(m1.ma, 0)) \/ BaseIndicator_update_panics(m1.data))

\* mv.rs 48 (index out of bounds), 50, 56, 62
MV_update_panics(m, value) ==
    \/ m.pos >= Len(m.prevs)
    \/ MA_update_panics(m.ma)
    \/ MV_emit_panics(MV_roll(m, value))

MV_get(m, key) == BaseIndicator_get(m.data, key)

\* reset that leaves the window count
MV_reset_keeplength(m) ==
    [m EXCEPT !.pos = 0, !.ma = MA_reset(@),
              !.prevs = [i \in 1..Len(m.prevs) |-> NaN],
              !.data = BaseIndicator_reset(@)]

MV_reset(m) ==
    [m EXCEPT !.length = 0, !.pos = 0, !.ma = MA_reset(@),
              !.prevs = [i \in 1..Len(m.prevs) |-> NaN],
              !.data = BaseIndicator_reset(@)]

---------------------------------------------------------------------------
(* STDEV<P, S>  (stdev.rs): square root of an owned MV<P, 1> *)

STDEV_new(P, S) == [mv |-> MV_new(P, 1), data |-> BaseIndicator_new(S, Num(0))]

\* stdev.rs 53-60, s1 being the instance after self.mv.update(value)
STDEV_emit(s1) ==
    LET variance == MV_get(s1.mv, 0) IN
    IF is_none(variance)
    THEN Unavailable(Store(s1, NaN))
    ELSE StoreGet(s1, FSqrt(unwrap(variance)))

STDEV_update(s, value) == STDEV_emit([s EXCEPT !.mv = MV_update(@, value).self])

STDEV_get(s, key) == BaseIndicator_get(s.data, key)

STDEV_reset(s) == [mv |-> MV_reset(s.mv), data |-> BaseIndicator_reset(s.data)]

---------------------------------------------------------------------------
(* DEMA<P, S>  (dema.rs): 2 * EMA - EMA(EMA) *)

DEMA_new(P, S) ==
    [first_ema |-> EMA_new(P, 1), second_ema |-> EMA_new(P, 1),
     data |-> BaseIndicator_new(S, Num(0))]

\* the second average falls back to the first while it is unavailable
DEMA_second_fallback(x2, ema1) ==
    StoreGet(x2, FSub(FMul(Num(2), ema1),
                      unwrap_or(EMA_get(x2.second_ema, 0), ema1)))

\* dema.rs 51-58, x2 being the instance after self.second_ema.update(ema1)
DEMA_second(x2, ema1) ==
    LET ema2 == EMA_get(x2.second_ema, 0) IN
    IF is_none(ema2)
    THEN Unavailable(x2)
    ELSE StoreGet(x2, FSub(FMul(Num(2), ema1), unwrap(ema2)))

\* the second average is fed on every call, with 0 while the first is unavailable
DEMA_first_feedall(x1) ==
    LET ema1 == EMA_get(x1.first_ema, 0) IN
    IF is_none(ema1)
    THEN Unavailable([x1 EXCEPT !.second_ema = EMA_update(@, Num(0)).self])
    ELSE DEMA_second([x1 EXCEPT !.second_ema = EMA_update(@, unwrap(ema1)).self],
                     unwrap(ema1))

\* dema.rs 44-50, x1 being the instance after self.first_ema.update(value)
DEMA_first(x1) ==
    LET ema1 == EMA_get(x1.first_ema, 0) IN
    IF is_none(ema1)
    THEN Unavailable(x1)
    ELSE DEMA_second([x1 EXCEPT !.second_ema = EMA_update(@, unwrap(ema1)).self],
                     unwrap(ema1))

DEMA_update(x, value) ==
    DEMA_first([x EXCEPT !.first_ema = EMA_update(@, value).self])

DEMA_get(x, key) == BaseIndicator_get(x.data, key)

\* reset that leaves the second average as it is
DEMA_reset_shallow(x) ==
    [first_ema |-> EMA_reset(x.first_ema), second_ema |-> x.second_ema,
     data |-> BaseIndicator_reset(x.data)]

DEMA_reset(x) ==
    [first_ema |-> EMA_reset(x.first_ema), second_ema |-> EMA_reset(x.second_ema),
     data |-> BaseIndicator_reset(x.data)]

---------------------------------------------------------------------------
(* TEMA<P, S>  (tema.rs): 3 * EMA - 3 * EMA(EMA) + EMA(EMA(EMA)) *)

TEMA_new(P, S) ==
    [first_ema |-> EMA_new(P, 1), second_ema |-> EMA_new(P, 1),
     third_ema |-> EMA_new(P, 1), data |-> BaseIndicator_new(S, Num(0))]

\* tema.rs 72-80, x3 being the instance after self.third_ema.update(ema2)
TEMA_third(x3, ema1, ema2) ==
    LET ema3 == EMA_get(x3.third_ema, 0) IN
    IF is_none(ema3)
    THEN Unavailable(Store(x3, NaN))
    ELSE StoreGet(x3, FAdd(FSub(FMul(Num(3), ema1), FMul(Num(3), ema2)),
                           unwrap(ema3)))

\* tema.rs 66-71, x2 being the instance after self.second_ema.update(ema1)
TEMA_second(x2, ema1) ==
    LET ema2 == EMA_get(x2.second_ema, 0) IN
    IF is_none(ema2)
    THEN Unavailable(Store(x2, NaN))
    ELSE TEMA_third([x2 EXCEPT !.third_ema = EMA_update(@, unwrap(ema2)).self],
                    ema1, unwrap(ema2))

\* the first stage returns early without the placeholder write, as DEMA does
TEMA_first_nowrite(x1) ==
    LET ema1 == EMA_get(x1.first_ema, 0) IN
    IF is_none(ema1)
    THEN Unavailable(x1)
    ELSE TEMA_second([x1 EXCEPT !.second_ema = EMA_update(@, unwrap(ema1)).self],
                     unwrap(ema1))

\* tema.rs 59-65, x1 being the instance after self.first_ema.update(value)
TEMA_first(x1) ==
    LET ema1 == EMA_get(x1.first_ema, 0) IN
    IF is_none(ema1)
    THEN Unavailable(Store(x1, NaN))
    ELSE TEMA_second([x1 EXCEPT !.second_ema = EMA_update(@, unwrap(ema1)).self],
                     unwrap(ema1))

TEMA_update(x, value) ==
    TEMA_first([x EXCEPT !.first_ema = EMA_update(@, value).self])

TEMA_get(x, key) == BaseIndicator_get(x.data, key)

TEMA_reset(x) ==
    [first_ema |-> EMA_reset(x.first_ema), second_ema |-> EMA_reset(x.second_ema),
     third_ema |-> EMA_reset(x.third_ema), data |-> BaseIndicator_reset(x.data)]

---------------------------------------------------------------------------
(* TRIMA<P, S>  (trima.rs): MA of an MA *)

TRIMA_new(P, S) ==
    [first_ma |-> MA_new(P, 1), second_ma |-> MA_new(P, 1),
     data |-> BaseIndicator_new(S, Num(0))]

\* trima.rs 50-56, x2 being the instance after self.second_ma.update(..)
TRIMA_second(x2) ==
    LET result == MA_get(x2.second_ma, 0) IN
    [self |-> Store(x2, IF is_some(result) THEN unwrap(result) ELSE NaN),
     out |-> result]

\* the second average is never fed
TRIMA_first_starved(x1) ==
    LET first_ma_value == MA_get(x1.first_ma, 0) IN
    IF is_none(first_ma_value)
    THEN Unavailable(Store(x1, NaN))
    ELSE TRIMA_second(x1)

\* trima.rs 43-49, x1 being the instance after self.first_ma.update(value)
TRIMA_first(x1) ==
    LET first_ma_value == MA_get(x1.first_ma, 0) IN
    IF is_none(first_ma_value)
    THEN Unavailable(Store(x1, NaN))
    ELSE TRIMA_second([x1 EXCEPT
                          !.second_ma = MA_update(@, unwrap(first_ma_value)).self])

TRIMA_update(x, value) ==
    TRIMA_first([x EXCEPT !.first_ma = MA_update(@, value).self])

TRIMA_get(x, key) == BaseIndicator_get(x.data, key)

TRIMA_reset(x) ==
    [first_ma |-> MA_reset(x.first_ma), second_ma |-> MA_reset(x.second_ma),
     data |-> BaseIndicator_reset(x.data)]

---------------------------------------------------------------------------
(* ROC<P, S>  (roc.rs): percentage change against the value P updates ago *)

ROC_new(P, S) ==
    [prevs |-> [i \in 1..P |-> NaN], length |-> 0, pos |-> 0,
     data |-> BaseIndicator_new(S, Num(0))]

\* roc.rs 70-71 and 76-77: the window takes the new value
ROC_roll(x, value) ==
    [x EXCEPT !.prevs = [@ EXCEPT ![x.pos + 1] = value],
              !.pos = (@ + 1) % Len(x.prevs)]

\* roc.rs 79-84
ROC_emit(x1, value, old_value) ==
    IF FEq(old_value, Num(0))
    THEN Unavailable(x1)
    ELSE StoreGet(x1, FMul(FDiv(FSub(value, old_value), old_value), Num(100)))

\* a zero old value leaves the window as it is
ROC_update_skip(x, value) ==
    IF x.length < Len(x.prevs)
    THEN Unavailable([ROC_roll(x, value) EXCEPT !.length = @ + 1])
    ELSE IF FEq(x.prevs[x.pos + 1], Num(0))
    THEN Unavailable(x)
    ELSE ROC_emit(ROC_roll(x, value), value, x.prevs[x.pos + 1])

ROC_update(x, value) ==
    IF x.length < Len(x.prevs)
    THEN Unavailable([ROC_roll(x, value) EXCEPT !.length = @ + 1])
    ELSE ROC_emit(ROC_roll(x, value), value, x.prevs[x.pos + 1])

ROC_get(x, key) == BaseIndicator_get(x.data, key)

ROC_reset(x) ==
    [x EXCEPT !.length = 0, !.pos = 0, !.prevs = [i \in 1..Len(x.prevs) |-> NaN],
              !.data = BaseIndicator_reset(@)]

---------------------------------------------------------------------------
(* MOM<P, S>  (mom.rs): the price minus the price P updates earlier *)

MOM_new(P, S) ==
    [prices |-> [i \in 1..P |-> NaN], pos |-> 0, length |-> 0,
     data |-> BaseIndicator_new(S, Num(0))]

\* mom.rs 44-45 and 53-54: the ring takes the price and the cursor moves on
MOM_roll(x, price) ==
    [x EXCEPT !.prices = [@ EXCEPT ![x.pos + 1] = price],
              !.pos = (@ + 1) % Len(x.prices)]

\* the ring is written during warmup only
MOM_update_nowrite(x, price) ==
    IF x.length < Len(x.prices)
    THEN Unavailable([MOM_roll(x, price) EXCEPT !.length = @ + 1])
    ELSE StoreGet([x EXCEPT !.pos = (@ + 1) % Len(x.prices)],
                  FSub(price, x.prices[x.pos + 1]))

MOM_update(x, price) ==
    IF x.length < Len(x.prices)
    THEN Unavailable([MOM_roll(x, price) EXCEPT !.length = @ + 1])
    ELSE StoreGet(MOM_roll(x, price), FSub(price, x.prices[x.pos + 1]))

MOM_get(x, key) == BaseIndicator_get(x.data, key)

MOM_reset(x) ==
    [x EXCEPT !.pos = 0, !.length = 0, !.prices = [i \in 1..Len(x.prices) |-> NaN],
              !.data = BaseIndicator_reset(@)]

---------------------------------------------------------------------------
(* KAMA<P, S>  (kama.rs): adaptive average over a window of P + 1 prices kept
   in a Vec; allocs counts the heap allocations the instance has made *)

KAMA_with_periods(P, S, fast_period, slow_period) ==
    [prices |-> [i \in 1..(P + 1) |-> NaN], pos |-> 0, length |-> 0,
     prev_kama |-> NaN, initialized |-> FALSE,
     fast_sc |-> FDiv(Num(2), FAdd(Num(fast_period), Num(1))),
     slow_sc |-> FDiv(Num(2), FAdd(Num(slow_period), Num(1))),
     data |-> BaseIndicator_new(S, Num(0)), allocs |-> 1]

KAMA_new(P, S) == KAMA_with_periods(P, S, 2, 30)

\* kama.rs 56-61: the window takes the value
KAMA_roll(x, value) ==
    [x EXCEPT !.prices = [@ EXCEPT ![x.pos + 1] = value],
              !.pos = (@ + 1) % Len(x.prices),
              !.length = IF @ < Len(x.prices) THEN @ + 1 ELSE @]

\* kama.rs 68-71
KAMA_seed(x1) ==
    IF x1.initialized THEN x1
    ELSE [x1 EXCEPT !.prev_kama = x1.prices[((x1.pos + Len(x1.prices) - 1) % Len(x1.prices)) + 1],
                    !.initialized = TRUE]

\* kama.rs 78-83: the sum of the absolute changes from the i-th pair of the window on
RECURSIVE KAMA_volatility(_, _)
KAMA_volatility(x1, i) ==
    IF i >= Len(x1.prices) - 1 THEN Num(0)
    ELSE FAdd(FAbs(FSub(x1.prices[((x1.pos + i + 1) % Len(x1.prices)) + 1],
                        x1.prices[((x1.pos + i) % Len(x1.prices)) + 1])),
              KAMA_volatility(x1, i + 1))

\* kama.rs 73-89: the efficiency ratio
KAMA_er(x1, volatility) ==
    IF FGt(volatility, Num(0))
    THEN FDiv(FAbs(FSub(x1.prices[((x1.pos + Len(x1.prices) - 1) % Len(x1.prices)) + 1],
                        x1.prices[x1.pos + 1])), volatility)
    ELSE Num(0)

\* kama.rs 91-97, x2 being the seeded instance
KAMA_smooth(x2, value, sc) ==
    StoreGet([x2 EXCEPT !.prev_kama = FAdd(@, FMul(FMul(sc, sc), FSub(value, @)))],
             FAdd(x2.prev_kama, FMul(FMul(sc, sc), FSub(value, x2.prev_kama))))

\* kama.rs 63-97, x1 being the instance after the window took the value
KAMA_emit(x1, value) ==
    IF x1.length < Len(x1.prices)
    THEN Unavailable(Store(x1, NaN))
    ELSE KAMA_smooth(KAMA_seed(x1), value,
                     FAdd(FMul(KAMA_er(x1, KAMA_volatility(x1, 0)),
                               FSub(x1.fast_sc, x1.slow_sc)), x1.slow_sc))

KAMA_update(x, value) == KAMA_emit(KAMA_roll(x, value), value)

KAMA_get(x, key) == BaseIndicator_get(x.data, key)

\* kama.rs 108-115: vec! builds a new window on the heap
KAMA_reset(x) ==
    [x EXCEPT !.pos = 0, !.length = 0, !.prev_kama = NaN, !.initialized = FALSE,
              !.prices = [i \in 1..Len(x.prices) |-> NaN],
              !.allocs = @ + 1,
              !.data = BaseIndicator_reset(@)]

---------------------------------------------------------------------------
(* ROI<S>  (roi.rs): change against the previous value *)

ROI_new(S) == [prev |-> NaN, data |-> BaseIndicator_new(S, Num(0))]

ROI_update(x, value) ==
    IF is_nan(x.prev) \/ FEq(x.prev, Num(0))
    THEN Unavailable([x EXCEPT !.prev = value])
    ELSE StoreGet([x EXCEPT !.prev = value], FSub(FDiv(value, x.prev), Num(1)))

ROI_get(x, key) == BaseIndicator_get(x.data, key)

ROI_reset(x) == [prev |-> NaN, data |-> BaseIndicator_reset(x.data)]

---------------------------------------------------------------------------
(* BollingerBands<P, S>  (bollinger.rs): MA<P, 1> and STDEV<P, 1> *)

BollingerResult_default == [upper |-> Num(0), middle |-> Num(0), lower |-> Num(0)]

BollingerBands_new_with_stddev(P, S, num_std_dev) ==
    [ma |-> MA_new(P, 1), stdev |-> STDEV_new(P, 1), num_std_dev |-> num_std_dev,
     data |-> BaseIndicator_new(S, BollingerResult_default)]

BollingerBands_new(P, S) == BollingerBands_new_with_stddev(P, S, Num(2))

\* bollinger.rs 86-95
BollingerBands_bands(x1, m, offset) ==
    StoreGet(x1, [upper |-> FAdd(m, offset), middle |-> m, lower |-> FSub(m, offset)])

\* only the deviation is tested for availability; a missing mean counts as 0
BollingerBands_emit_stdonly(x1) ==
    LET middle == MA_get(x1.ma, 0)
        stddev == STDEV_get(x1.stdev, 0)
    IN  IF is_none(stddev)
        THEN Unavailable(x1)
        ELSE BollingerBands_bands(x1, unwrap_or(middle, Num(0)),
                                  FMul(unwrap(stddev), x1.num_std_dev))

\* bollinger.rs 79-88, x1 being the instance after both sub-updates
BollingerBands_emit(x1) ==
    LET middle == MA_get(x1.ma, 0)
        stddev == STDEV_get(x1.stdev, 0)
    IN  IF is_none(middle) \/ is_none(stddev)
        THEN Unavailable(x1)
        ELSE BollingerBands_bands(x1, unwrap(middle),
                                  FMul(unwrap(stddev), x1.num_std_dev))

BollingerBands_update(x, value) ==
    BollingerBands_emit([x EXCEPT !.ma = MA_update(@, value).self,
                                  !.stdev = STDEV_update(@, value).self])

BollingerBands_get(x, key) == BaseIndicator_get(x.data, key)

BollingerBands_reset(x) ==
    [x EXCEPT !.ma = MA_reset(@), !.stdev = STDEV_reset(@),
              !.data = BaseIndicator_reset(@)]

---------------------------------------------------------------------------
(* MACD<SHORT, LONG, DIFF, S>  (macd.rs) *)

MACD_new(SHORT, LONG, DIFF, S) ==
    [short_ema |-> EMA_new(SHORT, 1), long_ema |-> EMA_new(LONG, 1),
     diff_ema |-> EMA_new(DIFF, 1), counter |-> 0,
     macd |-> BaseIndicator_new(S, Num(0)), signal |-> BaseIndicator_new(S, Num(0)),
     hist |-> BaseIndicator_new(S, Num(0))]

MACD_get_values(x, key) ==
    [macd |-> BaseIndicator_get(x.macd, key),
     signal |-> BaseIndicator_get(x.signal, key),
     hist |-> BaseIndicator_get(x.hist, key)]

\* histogram with the operands of the subtraction exchanged
MACD_emit_sign(x2, diff, signal_val) ==
    [self |-> IF is_some(signal_val)
              THEN [x2 EXCEPT
                      !.signal = BaseIndicator_update(@, unwrap(signal_val)).self,
                      !.hist = BaseIndicator_update(@, FSub(unwrap(signal_val), diff)).self]
              ELSE x2,
     out |-> BaseIndicator_get(x2.macd, 0)]

\* macd.rs 125-130, x2 being the instance after self.macd.update(diff)
MACD_emit(x2, diff, signal_val) ==
    [self |-> IF is_some(signal_val)
              THEN [x2 EXCEPT
                      !.signal = BaseIndicator_update(@, unwrap(signal_val)).self,
                      !.hist = BaseIndicator_update(@, FSub(diff, unwrap(signal_val))).self]
              ELSE x2,
     out |-> BaseIndicator_get(x2.macd, 0)]

\* macd.rs 120-123
MACD_signal(x1, diff) ==
    MACD_emit([x1 EXCEPT !.macd = BaseIndicator_update(@, diff).self],
              diff, EMA_get(x1.diff_ema, 0))

\* the signal EMA fed one call late: it sees the difference only after it is read
MACD_diff_latesignal(x1, short_val, long_val) ==
    IF is_none(short_val) \/ is_none(long_val)
    THEN Unavailable(x1)
    ELSE LET r == MACD_signal(x1, FSub(unwrap(short_val), unwrap(long_val)))
         IN [self |-> [r.self EXCEPT !.diff_ema =
                          EMA_update(@, FSub(unwrap(short_val), unwrap(long_val))).self],
             out |-> r.out]

\* macd.rs 115-120
MACD_diff(x1, short_val, long_val) ==
    IF is_none(short_val) \/ is_none(long_val)
    THEN Unavailable(x1)
    ELSE MACD_signal([x1 EXCEPT !.diff_ema =
                         EMA_update(@, FSub(unwrap(short_val), unwrap(long_val))).self],
                     FSub(unwrap(short_val), unwrap(long_val)))

\* warmup test off by one: counter <= start
MACD_step_late(x1) ==
    IF x1.counter <= (IF x1.long_ema.P > x1.short_ema.P
                      THEN x1.long_ema.P ELSE x1.short_ema.P)
    THEN Unavailable(x1)
    ELSE MACD_diff(x1, EMA_get(x1.short_ema, 0), EMA_get(x1.long_ema, 0))

\* macd.rs 107-113, x1 being the instance after lines 103-105
MACD_step(x1) ==
    IF x1.counter < (IF x1.long_ema.P > x1.short_ema.P
                     THEN x1.long_ema.P ELSE x1.short_ema.P)
    THEN Unavailable(x1)
    ELSE MACD_diff(x1, EMA_get(x1.short_ema, 0), EMA_get(x1.long_ema, 0))

MACD_update(x, value) ==
    MACD_step([x EXCEPT !.counter = @ + 1,
                        !.short_ema = EMA_update(@, value).self,
                        !.long_ema = EMA_update(@, value).self])

MACD_get(x, key) == BaseIndicator_get(x.macd, key)

MACD_reset(x) ==
    [short_ema |-> EMA_reset(x.short_ema), long_ema |-> EMA_reset(x.long_ema),
     diff_ema |-> EMA_reset(x.diff_ema), counter |-> 0,
     macd |-> BaseIndicator_reset(x.macd), signal |-> BaseIndicator_reset(x.signal),
     hist |-> BaseIndicator_reset(x.hist)]

---------------------------------------------------------------------------
(* Ohlcv  (types.rs): the fields the indicators read *)

Ohlcv(open, high, low, close, volume) ==
    [open |-> Num(open), high |-> Num(high), low |-> Num(low),
     close |-> Num(close), volume |-> Num(volume)]

---------------------------------------------------------------------------
(* ATR<P, S>  (atr.rs): MA<P, 1> of the true range *)

ATR_new(P, S) ==
    [prev_close |-> NaN, ma |-> MA_new(P, 1), data |-> BaseIndicator_new(S, Num(0))]

\* atr.rs 81-88
TrueRange(prev_close, value) ==
    IF is_nan(prev_close)
    THEN FSub(value.high, value.low)
    ELSE FMax(FMax(FSub(value.high, value.low),
                   FAbs(FSub(value.high, prev_close))),
              FAbs(FSub(value.low, prev_close)))

\* atr.rs 92-98, x1 being the instance after self.ma.update(tr)
ATR_emit(x1) ==
    LET atr_value == MA_get(x1.ma, 0) IN
    [self |-> IF is_some(atr_value) THEN Store(x1, unwrap(atr_value)) ELSE x1,
     out |-> atr_value]

ATR_update(x, value) ==
    ATR_emit([x EXCEPT !.prev_close = value.close,
                       !.ma = MA_update(@, TrueRange(x.prev_close, value)).self])

ATR_get(x, key) == BaseIndicator_get(x.data, key)

ATR_reset(x) ==
    [prev_close |-> NaN, ma |-> MA_reset(x.ma), data |-> BaseIndicator_reset(x.data)]

---------------------------------------------------------------------------
(* NATR<P, S>  (natr.rs): ATR<P, 1> as a percentage of the close *)

NATR_new(P, S) == [atr |-> ATR_new(P, 1), data |-> BaseIndicator_new(S, Num(0))]

\* natr.rs 37-43, r being the result of self.atr.update(value)
NATR_emit(x, value, r) ==
    LET atr_value == unwrap_or(r.out, NaN) IN
    IF is_nan(atr_value) \/ FEq(value.close, Num(0))
    THEN StoreGet([x EXCEPT !.atr = r.self], NaN)
    ELSE StoreGet([x EXCEPT !.atr = r.self],
                  FMul(FDiv(atr_value, value.close), Num(100)))

NATR_update(x, value) == NATR_emit(x, value, ATR_update(x.atr, value))

NATR_get(x, key) == BaseIndicator_get(x.data, key)

NATR_reset(x) == [atr |-> ATR_reset(x.atr), data |-> BaseIndicator_reset(x.data)]

---------------------------------------------------------------------------
(* STOCH<K, D, S>  (stoch.rs): %K over K bars, %D an MA<D, 1> of %K *)

StochResult_default == [k |-> Num(0), d |-> Num(0)]

STOCH_new(K, D, S) ==
    [high_window |-> [i \in 1..K |-> NaN], low_window |-> [i \in 1..K |-> NaN],
     close_window |-> [i \in 1..K |-> NaN], length |-> 0, pos |-> 0,
     k_ma |-> MA_new(D, 1), data |-> BaseIndicator_new(S, StochResult_default)]

\* stoch.rs 112-122: the loops over slots 1..K-1 (here 2..K), from slot 0
RECURSIVE HighestHigh(_, _)
HighestHigh(w, i) ==
    IF i = 1 THEN w[1]
    ELSE IF FGt(w[i], HighestHigh(w, i - 1)) THEN w[i] ELSE HighestHigh(w, i - 1)

RECURSIVE LowestLow(_, _)
LowestLow(w, i) ==
    IF i = 1 THEN w[1]
    ELSE IF FLt(w[i], LowestLow(w, i - 1)) THEN w[i] ELSE LowestLow(w, i - 1)

\* stoch.rs 99-106
STOCH_roll(x, value) ==
    [x EXCEPT !.length = IF @ < Len(x.high_window) THEN @ + 1 ELSE @,
              !.high_window = [@ EXCEPT ![x.pos + 1] = value.high],
              !.low_window = [@ EXCEPT ![x.pos + 1] = value.low],
              !.close_window = [@ EXCEPT ![x.pos + 1] = value.close],
              !.pos = (@ + 1) % Len(x.high_window)]

\* %D read before the average of %K has taken the new %K
STOCH_smooth_lagging(x1, kv) ==
    StoreGet([x1 EXCEPT !.k_ma = MA_update(@, kv).self],
             [k |-> kv, d |-> unwrap_or(MA_get(x1.k_ma, 0), kv)])

\* stoch.rs 131-135
STOCH_smooth(x1, kv) ==
    StoreGet([x1 EXCEPT !.k_ma = MA_update(@, kv).self],
             [k |-> kv, d |-> unwrap_or(MA_get(MA_update(x1.k_ma, kv).self, 0), kv)])

\* %K without the test of the range
STOCH_k_divides(x1, value, highest_high, lowest_low) ==
    STOCH_smooth(x1,
        FDiv(FMul(Num(100), FSub(value.close, lowest_low)),
             FSub(highest_high, lowest_low)))

\* stoch.rs 124-129
STOCH_k(x1, value, highest_high, lowest_low) ==
    STOCH_smooth(x1,
        IF FEq(FSub(highest_high, lowest_low), Num(0))
        THEN Num(50)
        ELSE FDiv(FMul(Num(100), FSub(value.close, lowest_low)),
                  FSub(highest_high, lowest_low)))

\* stoch.rs 108-122
STOCH_step(x1, value) ==
    IF x1.length < Len(x1.high_window)
    THEN Unavailable(x1)
    ELSE STOCH_k(x1, value, HighestHigh(x1.high_window, Len(x1.high_window)),
                 LowestLow(x1.low_window, Len(x1.low_window)))

STOCH_update(x, value) == STOCH_step(STOCH_roll(x, value), value)

STOCH_get(x, key) == BaseIndicator_get(x.data, key)

STOCH_reset(x) ==
    [x EXCEPT !.length = 0, !.pos = 0, !.k_ma = MA_reset(@),
              !.data = BaseIndicator_reset(@),
              !.high_window = [i \in 1..Len(x.high_window) |-> NaN],
              !.low_window = [i \in 1..Len(x.low_window) |-> NaN],
              !.close_window = [i \in 1..Len(x.close_window) |-> NaN]]

---------------------------------------------------------------------------
(* RSI<P, S>  (rsi.rs): averages of the gains and of the losses, MA<P, 1> *)

RSI_new(P, S) ==
    [gains |-> MA_new(P, 1), losses |-> MA_new(P, 1),
     data |-> BaseIndicator_new(S, Num(0))]

\* rsi.rs 83-85
RSI_feed(x, diff) ==
    [x EXCEPT
       !.gains = MA_update(@, IF FGt(diff, Num(0)) \/ FEq(diff, Num(0))
                              THEN diff ELSE Num(0)).self,
       !.losses = MA_update(@, IF FLt(diff, Num(0))
                               THEN FNeg(diff) ELSE Num(0)).self]

\* rsi.rs 95-99
RSI_value(gain_avg, loss_val) ==
    IF FEq(loss_val, Num(0))
    THEN Num(100)
    ELSE FSub(Num(100), FDiv(Num(100), FAdd(Num(1), FDiv(gain_avg, loss_val))))

\* rsi.rs 87-102, x1 being the instance after both sub-updates
RSI_emit(x1) ==
    IF is_none(MA_get(x1.losses, 0))
    THEN Unavailable(x1)
    ELSE StoreGet(x1, RSI_value(unwrap(MA_get(x1.gains, 0)),
                                unwrap(MA_get(x1.losses, 0))))

RSI_update(x, value) == RSI_emit(RSI_feed(x, FSub(value.close, value.open)))

\* rsi.rs 92 (unwrap of the gains average) and 101
RSI_emit_panics(x1) ==
    /\ is_some(MA_get(x1.losses, 0))
    /\ (is_none(MA_get(x1.gains, 0)) \/ BaseIndicator_update_panics(x1.data))

RSI_update_panics(x, value) ==
    \/ MA_update_panics(x.gains)
    \/ MA_update_panics(x.losses)
    \/ RSI_emit_panics(RSI_feed(x, FSub(value.close, value.open)))

RSI_get(x, key) == BaseIndicator_get(x.data, key)

RSI_reset(x) ==
    [gains |-> MA_reset(x.gains), losses |-> MA_reset(x.losses),
     data |-> BaseIndicator_reset(x.data)]

---------------------------------------------------------------------------
(* AD<S>  (ad.rs): accumulation/distribution line *)

AD_new(S) == [ad_value |-> Num(0), data |-> BaseIndicator_new(S, Num(0))]

\* ad.rs 40-41
AD_flow(ad_value, value) ==
    FAdd(ad_value,
         FMul(FDiv(FSub(FSub(value.close, value.low), FSub(value.high, value.close)),
                   FSub(value.high, value.low)),
              value.volume))

\* on a zero range nothing is appended to the history
AD_update_noappend(x, value) ==
    IF FEq(FSub(value.high, value.low), Num(0))
    THEN [self |-> x, out |-> BaseIndicator_get(x.data, 0)]
    ELSE StoreGet([x EXCEPT !.ad_value = AD_flow(@, value)],
                  AD_flow(x.ad_value, value))

AD_update(x, value) ==
    IF FEq(FSub(value.high, value.low), Num(0))
    THEN StoreGet(x, x.ad_value)
    ELSE StoreGet([x EXCEPT !.ad_value = AD_flow(@, value)],
                  AD_flow(x.ad_value, value))

AD_get(x, key) == BaseIndicator_get(x.data, key)

AD_reset(x) == [ad_value |-> Num(0), data |-> BaseIndicator_reset(x.data)]

---------------------------------------------------------------------------
(* The instance under exercise and the calls made on it *)

BaseVals == {1, 2, 3}
Prices == {Num(3), Num(4), Num(5), Num(6)}
LowPrices == {Num(0), Num(1), Num(2)}
FlatOrJump == {Num(0), Num(2)}
Bars == {Ohlcv(1, 2, 1, 2, 10), Ohlcv(1, 1, 1, 1, 10), Ohlcv(1, 1, 0, 0, 10)}
Keys == (-(MaxN + 2))..2

PrimKinds == {"MA", "EMA", "MV"}
PriceKinds ==
    {"STDEV", "DEMA", "TEMA", "TRIMA", "ROC", "ROI", "BollingerBands", "MACD", "MOM",
     "KAMA"}
BarKinds == {"ATR", "NATR", "STOCH", "RSI", "AD"}
Kinds == {"BaseIndicator"} \cup PrimKinds \cup PriceKinds \cup BarKinds

\* <type>::<P, .., N>::new(); P2 and P3 are the further periods of the types
\* that have them (MACD<P, P2, P3, N>, STOCH<P, P2, N>)
New(kd, P, P2, P3, N) ==
    CASE kd = "BaseIndicator" -> BaseIndicator_new(N, 0)
      [] kd = "MA" -> MA_new(P, N)
      [] kd = "EMA" -> EMA_new(P, N)
      [] kd = "MV" -> MV_new(P, N)
      [] kd = "STDEV" -> STDEV_new(P, N)
      [] kd = "DEMA" -> DEMA_new(P, N)
      [] kd = "TEMA" -> TEMA_new(P, N)
      [] kd = "TRIMA" -> TRIMA_new(P, N)
      [] kd = "ROC" -> ROC_new(P, N)
      [] kd = "ROI" -> ROI_new(N)
      [] kd = "MOM" -> MOM_new(P, N)
      [] kd = "KAMA" -> KAMA_with_periods(P, N, 1, 3)
      [] kd = "BollingerBands" -> BollingerBands_new(P, N)
      [] kd = "MACD" -> MACD_new(P, P2, P3, N)
      [] kd = "ATR" -> ATR_new(P, N)
      [] kd = "NATR" -> NATR_new(P, N)
      [] kd = "STOCH" -> STOCH_new(P, P2, N)
      [] kd = "RSI" -> RSI_new(P, N)
      [] kd = "AD" -> AD_new(N)

\* Indicator::get of the instance
Get(key) ==
    CASE kind = "BaseIndicator" -> BaseIndicator_get(ind, key)
      [] kind = "MA" -> MA_get(ind, key)
      [] kind = "EMA" -> EMA_get(ind, key)
      [] kind = "MV" -> MV_get(ind, key)
      [] kind = "STDEV" -> STDEV_get(ind, key)
      [] kind = "DEMA" -> DEMA_get(ind, key)
      [] kind = "TEMA" -> TEMA_get(ind, key)
      [] kind = "TRIMA" -> TRIMA_get(ind, key)
      [] kind = "ROC" -> ROC_get(ind, key)
      [] kind = "ROI" -> ROI_get(ind, key)
      [] kind = "MOM" -> MOM_get(ind, key)
      [] kind = "KAMA" -> KAMA_get(ind, key)
      [] kind = "BollingerBands" -> BollingerBands_get(ind, key)
      [] kind = "MACD" -> MACD_get(ind, key)
      [] kind = "ATR" -> ATR_get(ind, key)
      [] kind = "NATR" -> NATR_get(ind, key)
      [] kind = "STOCH" -> STOCH_get(ind, key)
      [] kind = "RSI" -> RSI_get(ind, key)
      [] kind = "AD" -> AD_get(ind, key)

\* the buffer Indicator::get of the instance reads
OutBuf ==
    CASE kind = "BaseIndicator" -> ind
      [] kind = "MACD" -> ind.macd
      [] OTHER -> ind.data

\* the const generics of the instance
CapN == BaseN(OutBuf)
PeriodP ==
    CASE kind \in {"EMA"} -> ind.P
      [] kind \in {"MA", "MV", "ROC"} -> Len(ind.prevs)
      [] kind = "MOM" -> Len(ind.prices)
      [] kind = "KAMA" -> Len(ind.prices) - 1
      [] kind = "STDEV" -> Len(ind.mv.prevs)
      [] kind \in {"DEMA", "TEMA"} -> ind.first_ema.P
      [] kind = "TRIMA" -> Len(ind.first_ma.prevs)
      [] kind \in {"BollingerBands", "ATR"} -> Len(ind.ma.prevs)
      [] kind = "NATR" -> Len(ind.atr.ma.prevs)
      [] kind = "RSI" -> Len(ind.gains.prevs)
      [] kind = "STOCH" -> Len(ind.high_window)
      [] kind = "MACD" -> ind.short_ema.P
      [] OTHER -> 1

\* number of update calls since construction or the last reset
NCalls == Len(inputs)

Init ==
    /\ kind \in Kinds
    /\ \E P \in 1..MaxP, P2 \in 1..MaxP, P3 \in 1..MaxP, N \in 1..MaxN :
           ind = New(kind, P, P2, P3, N)
    /\ inputs = <<>>
    /\ rets = <<>>
    /\ steps = 0
    /\ panicked = FALSE

\* one call of update: the instance changes and the result is returned
Called(value, r) ==
    /\ steps < MaxSteps
    /\ ~panicked
    /\ ind' = r.self
    /\ inputs' = Append(inputs, value)
    /\ rets' = Append(rets, r.out)
    /\ steps' = steps + 1
    /\ UNCHANGED <<kind, panicked>>

\* one call of update that panics: nothing is returned
Panicked(value) ==
    /\ steps < MaxSteps
    /\ ~panicked
    /\ panicked' = TRUE
    /\ inputs' = Append(inputs, value)
    /\ steps' = steps + 1
    /\ UNCHANGED <<kind, ind, rets>>

\* one call of update, which panics or returns r
Update(panics, value, r) == IF panics THEN Panicked(value) ELSE Called(value, r)

\* one call of reset
WasReset(self) ==
    /\ steps < MaxSteps
    /\ ~panicked
    /\ ind' = self
    /\ inputs' = <<>>
    /\ rets' = <<>>
    /\ steps' = steps + 1
    /\ UNCHANGED <<kind, panicked>>

BaseUpdate ==
    /\ kind = "BaseIndicator"
    /\ \E v \in BaseVals :
           Update(BaseIndicator_update_panics(ind), v, BaseIndicator_update(ind, v))
BaseReset == kind = "BaseIndicator" /\ WasReset(BaseIndicator_reset(ind))

MAUpdate ==
    /\ kind = "MA"
    /\ \E v \in Prices : Update(MA_update_panics(ind), v, MA_update(ind, v))
\* f64 has NaN: one call of update with it
MAUpdateNaN ==
    kind = "MA" /\ Update(MA_update_panics(ind), NaN, MA_update(ind, NaN))
MAReset == kind = "MA" /\ WasReset(MA_reset(ind))

EMAUpdate == kind = "EMA" /\ \E v \in Prices : Called(v, EMA_update(ind, v))
\* f64 has NaN and infinity: one call of update with any of four values
EMAUpdateAny ==
    kind = "EMA" /\ \E v \in FlatOrJump \cup {NaN, Inf(1)} : Called(v, EMA_update(ind, v))
EMAReset == kind = "EMA" /\ WasReset(EMA_reset(ind))

MVUpdate ==
    /\ kind = "MV"
    /\ \E v \in Prices : Update(MV_update_panics(ind, v), v, MV_update(ind, v))
MVReset == kind = "MV" /\ WasReset(MV_reset(ind))

STDEVUpdate == kind = "STDEV" /\ \E v \in LowPrices : Called(v, STDEV_update(ind, v))
STDEVReset == kind = "STDEV" /\ WasReset(STDEV_reset(ind))

DEMAUpdate == kind = "DEMA" /\ \E v \in LowPrices : Called(v, DEMA_update(ind, v))
DEMAReset == kind = "DEMA" /\ WasReset(DEMA_reset(ind))

TEMAUpdate == kind = "TEMA" /\ \E v \in LowPrices : Called(v, TEMA_update(ind, v))
TEMAReset == kind = "TEMA" /\ WasReset(TEMA_reset(ind))

TRIMAUpdate == kind = "TRIMA" /\ \E v \in LowPrices : Called(v, TRIMA_update(ind, v))
TRIMAReset == kind = "TRIMA" /\ WasReset(TRIMA_reset(ind))

ROCUpdate == kind = "ROC" /\ \E v \in LowPrices : Called(v, ROC_update(ind, v))
ROCReset == kind = "ROC" /\ WasReset(ROC_reset(ind))

ROIUpdate == kind = "ROI" /\ \E v \in LowPrices : Called(v, ROI_update(ind, v))
ROIReset == kind = "ROI" /\ WasReset(ROI_reset(ind))
\* f64 has NaN, which is also what ROI keeps as "no previous value"
ROIUpdateNaN == kind = "ROI" /\ Called(NaN, ROI_update(ind, NaN))

MOMUpdate == kind = "MOM" /\ \E v \in Prices : Called(v, MOM_update(ind, v))
MOMReset == kind = "MOM" /\ WasReset(MOM_reset(ind))

KAMAUpdate == kind = "KAMA" /\ \E v \in FlatOrJump : Called(v, KAMA_update(ind, v))
KAMAReset == kind = "KAMA" /\ WasReset(KAMA_reset(ind))

BollingerBandsUpdate == kind = "BollingerBands" /\ \E v \in LowPrices : Called(v, BollingerBands_update(ind, v))
BollingerBandsReset == kind = "BollingerBands" /\ WasReset(BollingerBands_reset(ind))

MACDUpdate == kind = "MACD" /\ \E v \in LowPrices : Called(v, MACD_update(ind, v))
MACDReset == kind = "MACD" /\ WasReset(MACD_reset(ind))

ATRUpdate == kind = "ATR" /\ \E v \in Bars : Called(v, ATR_update(ind, v))
ATRReset == kind = "ATR" /\ WasReset(ATR_reset(ind))

NATRUpdate == kind = "NATR" /\ \E v \in Bars : Called(v, NATR_update(ind, v))
NATRReset == kind = "NATR" /\ WasReset(NATR_reset(ind))

STOCHUpdate == kind = "STOCH" /\ \E v \in Bars : Called(v, STOCH_update(ind, v))
STOCHReset == kind = "STOCH" /\ WasReset(STOCH_reset(ind))

\* a bar whose prices are all +infinity (the fields of Ohlcv are plain f64)
InfBar ==
    [open |-> Inf(1), high |-> Inf(1), low |-> Inf(1), close |-> Inf(1),
     volume |-> Num(10)]
STOCHUpdateInf == kind = "STOCH" /\ Called(InfBar, STOCH_update(ind, InfBar))

RSIUpdate ==
    /\ kind = "RSI"
    /\ \E v \in Bars : Update(RSI_update_panics(ind, v), v, RSI_update(ind, v))
RSIReset == kind = "RSI" /\ WasReset(RSI_reset(ind))

ADUpdate == kind = "AD" /\ \E v \in Bars : Called(v, AD_update(ind, v))
ADReset == kind = "AD" /\ WasReset(AD_reset(ind))

NextBase == BaseUpdate \/ BaseReset
NextPrim == MAUpdate \/ MAReset \/ EMAUpdate \/ EMAReset \/ MVUpdate \/ MVReset
NextPrice ==
    \/ STDEVUpdate \/ STDEVReset \/ DEMAUpdate \/ DEMAReset
    \/ TEMAUpdate \/ TEMAReset \/ TRIMAUpdate \/ TRIMAReset
    \/ ROCUpdate \/ ROCReset \/ ROIUpdate \/ ROIReset \/ MOMUpdate \/ MOMReset
    \/ KAMAUpdate \/ KAMAReset
    \/ BollingerBandsUpdate \/ BollingerBandsReset \/ MACDUpdate \/ MACDReset
NextBar ==
    \/ ATRUpdate \/ ATRReset \/ NATRUpdate \/ NATRReset
    \/ STOCHUpdate \/ STOCHReset \/ RSIUpdate \/ RSIReset \/ ADUpdate \/ ADReset
Next == NextBase \/ NextPrim \/ NextPrice \/ NextBar

Spec == Init /\ [][Next]_vars

\* the history buffer alone
InitBase == Init /\ kind = "BaseIndicator"
SpecBase == InitBase /\ [][NextBase]_vars

\* the primitive indicators MA, EMA, MV
InitPrim == Init /\ kind \in PrimKinds
SpecPrim == InitPrim /\ [][NextPrim]_vars

\* the composites
CompositeKinds ==
    {"MACD", "BollingerBands", "DEMA", "TEMA", "TRIMA", "NATR", "STOCH"}
InitComposite == Init /\ kind \in CompositeKinds
NextComposite ==
    \/ MACDUpdate \/ MACDReset \/ BollingerBandsUpdate \/ BollingerBandsReset
    \/ DEMAUpdate \/ DEMAReset \/ TEMAUpdate \/ TEMAReset
    \/ TRIMAUpdate \/ TRIMAReset \/ NATRUpdate \/ NATRReset
    \/ STOCHUpdate \/ STOCHReset
SpecComposite == InitComposite /\ [][NextComposite]_vars

\* the indicators whose reset is replayed: MA, EMA, MV, MACD, BollingerBands
ResetKinds == PrimKinds \cup {"MACD", "BollingerBands"}
InitReset == Init /\ kind \in ResetKinds
NextReset ==
    \/ NextPrim
    \/ MACDUpdate \/ MACDReset \/ BollingerBandsUpdate \/ BollingerBandsReset
SpecReset == InitReset /\ [][NextReset]_vars

\* MACD alone
InitMACD == Init /\ kind = "MACD"
SpecMACD == InitMACD /\ [][MACDUpdate \/ MACDReset]_vars

\* DEMA alone
InitDEMA == Init /\ kind = "DEMA"
SpecDEMA == InitDEMA /\ [][DEMAUpdate \/ DEMAReset]_vars

\* BollingerBands alone
InitBollinger == Init /\ kind = "BollingerBands"
SpecBollinger == InitBollinger /\ [][BollingerBandsUpdate \/ BollingerBandsReset]_vars

\* MOM alone
InitMOM == Init /\ kind = "MOM"
SpecMOM == InitMOM /\ [][MOMUpdate \/ MOMReset]_vars

\* ROC alone, ROI alone
InitROC == Init /\ kind = "ROC"
SpecROC == InitROC /\ [][ROCUpdate \/ ROCReset]_vars
InitROI == Init /\ kind = "ROI"
SpecROI == InitROI /\ [][ROIUpdate \/ ROIUpdateNaN \/ ROIReset]_vars

\* KAMA alone
InitKAMA == Init /\ kind = "KAMA"
SpecKAMA == InitKAMA /\ [][KAMAUpdate \/ KAMAReset]_vars

\* MA alone, with NaN among the inputs
InitMA == Init /\ kind = "MA"
SpecMA == InitMA /\ [][MAUpdate \/ MAUpdateNaN \/ MAReset]_vars

\* EMA alone, built by new() or with_smoothing(1.0), with NaN and infinity
\* among the inputs
Smoothings == {Num(1), Num(2)}
InitEMA ==
    /\ kind = "EMA"
    /\ \E P \in 1..MaxP, N \in 1..MaxN, smoothing \in Smoothings :
           ind = EMA_with_smoothing(P, N, smoothing)
    /\ inputs = <<>>
    /\ rets = <<>>
    /\ steps = 0
    /\ panicked = FALSE
SpecEMA == InitEMA /\ [][EMAUpdateAny \/ EMAReset]_vars

\* STOCH alone
InitSTOCH == Init /\ kind = "STOCH"
SpecSTOCH == InitSTOCH /\ [][STOCHUpdate \/ STOCHReset]_vars

\* STOCH on finite and infinite bars
SpecSTOCHAny == InitSTOCH /\ [][STOCHUpdate \/ STOCHUpdateInf \/ STOCHReset]_vars

\* Two instances of one average with the same period, of history depth 1 and
\* N, given the same calls: MA<P, 1> with MA<P, N>, EMA<P, 1> with EMA<P, N>
DepthKinds == {"MAPair", "EMAPair"}
PairNew(kd, P, N) ==
    IF kd = "MAPair"
    THEN [shallow |-> MA_new(P, 1), deep |-> MA_new(P, N)]
    ELSE [shallow |-> EMA_new(P, 1), deep |-> EMA_new(P, N)]
PairResult(a, b) ==
    [self |-> [shallow |-> a.self, deep |-> b.self],
     out |-> [shallow |-> a.out, deep |-> b.out]]
PairUpdate(x, value) ==
    IF kind = "MAPair"
    THEN PairResult(MA_update(x.shallow, value), MA_update(x.deep, value))
    ELSE PairResult(EMA_update(x.shallow, value), EMA_update(x.deep, value))
PairGet(x, key) ==
    IF kind = "MAPair"
    THEN [shallow |-> MA_get(x.shallow, key), deep |-> MA_get(x.deep, key)]
    ELSE [shallow |-> EMA_get(x.shallow, key), deep |-> EMA_get(x.deep, key)]
PairReset(x) ==
    IF kind = "MAPair"
    THEN [shallow |-> MA_reset(x.shallow), deep |-> MA_reset(x.deep)]
    ELSE [shallow |-> EMA_reset(x.shallow), deep |-> EMA_reset(x.deep)]

DepthUpdate ==
    /\ kind \in DepthKinds
    /\ \E v \in Prices \cup {NaN} : Called(v, PairUpdate(ind, v))
DepthReset == kind \in DepthKinds /\ WasReset(PairReset(ind))

InitDepth ==
    /\ kind \in DepthKinds
    /\ \E P \in 1..MaxP, N \in 1..MaxN : ind = PairNew(kind, P, N)
    /\ inputs = <<>>
    /\ rets = <<>>
    /\ steps = 0
    /\ panicked = FALSE
SpecDepth == InitDepth /\ [][DepthUpdate \/ DepthReset]_vars

\* MACD on a flat or jumping price: every period and capacity, two prices
MACDUpdateFlatOrJump ==
    kind = "MACD" /\ \E v \in FlatOrJump : Called(v, MACD_update(ind, v))
SpecMACDJump == InitMACD /\ [][MACDUpdateFlatOrJump \/ MACDReset]_vars

\* the buffer and the indicators that unwrap a sub-indicator's value
TotalKinds == {"BaseIndicator", "MV", "RSI"}
InitTotal == Init /\ kind \in TotalKinds
NextTotal == NextBase \/ MVUpdate \/ MVReset \/ RSIUpdate \/ RSIReset
SpecTotal == InitTotal /\ [][NextTotal]_vars

\* BaseIndicator<T, N> and MA<P, N> with P and N from 0: new() checks nothing
InitZero ==
    /\ kind \in {"BaseIndicator", "MA"}
    /\ \E P \in 0..MaxP, N \in 0..MaxN : ind = New(kind, P, 1, 1, N)
    /\ inputs = <<>>
    /\ rets = <<>>
    /\ steps = 0
    /\ panicked = FALSE
NextZero == BaseUpdate \/ BaseReset \/ MAUpdate \/ MAReset
SpecZero == InitZero /\ [][NextZero]_vars

\* AD alone
InitAD == Init /\ kind = "AD"
SpecAD == InitAD /\ [][ADUpdate \/ ADReset]_vars

\* the averages MA, EMA and TEMA
AvgKinds == {"MA", "EMA", "TEMA"}
InitAvg == Init /\ kind \in AvgKinds
NextAvg == MAUpdate \/ MAReset \/ EMAUpdate \/ EMAReset \/ TEMAUpdate \/ TEMAReset
SpecAvg == InitAvg /\ [][NextAvg]_vars

---------------------------------------------------------------------------
(* Claims on the history buffer *)

Min(a, b) == IF a < b THEN a ELSE b

\* C1: after NCalls appends since construction or the last reset, get(key) of a
\* BaseIndicator<T,N> returns a value if and only if key <= 0 and
\* -min(NCalls,N) < key; in particular get(-N) is unavailable also once more
\* than N values have been appended.
C1_BufferBounds ==
    kind = "BaseIndicator" =>
        \A key \in Keys :
            is_some(Get(key)) <=> (key <= 0 /\ -Min(NCalls, CapN) < key)

\* C2: whenever get(key) returns a value, it is the value passed to the
\* append made exactly -key appends before the most recent one since the
\* last reset, never the content of another slot.
C2_NoWrongSlot ==
    kind = "BaseIndicator" =>
        \A key \in Keys :
            is_some(Get(key)) =>
                /\ key <= 0
                /\ -key < NCalls
                /\ unwrap(Get(key)) = inputs[NCalls + key]

\* C3: after NCalls > N appends to a capacity-N buffer, for every j with
\* 0 <= j <= N-1, get(-j) returns the (NCalls-j)-th appended value: the oldest
\* NCalls-N values have been evicted in FIFO order.
C3_OverwriteCorrectness ==
    (kind = "BaseIndicator" /\ NCalls > CapN) =>
        \A j \in 0..(CapN - 1) : Get(-j) = Some(inputs[NCalls - j])

\* after N+1 appends (N >= 2, first two values different) get(0) is the
\* (N+1)-th value and get(-(N-1)) the 2nd
C3_Witness ==
    /\ kind = "BaseIndicator"
    /\ CapN >= 2
    /\ NCalls = CapN + 1
    /\ inputs[1] # inputs[2]
    /\ Get(0) = Some(inputs[CapN + 1])
    /\ Get(-(CapN - 1)) = Some(inputs[2])

---------------------------------------------------------------------------
(* Claims on the primitive indicators *)

\* C4: for MA, EMA and MV of period P >= 1, counting calls from
\* construction or from the last reset, update returns None for exactly
\* the first P-1 calls and Some for the P-th call and every later call.
C4_WarmupMonotonicity ==
    kind \in PrimKinds =>
        \A i \in 1..NCalls : is_some(rets[i]) <=> i >= PeriodP

\* a second warmup, after a reset, has been completed
C4_Witness ==
    /\ kind \in PrimKinds
    /\ PeriodP >= 2
    /\ steps > NCalls + 1
    /\ NCalls >= PeriodP
    /\ is_none(rets[PeriodP - 1])
    /\ is_some(rets[PeriodP])

\* C5: for MA<P,N>, after NCalls >= P updates since construction or reset,
\* get(-j) for 0 <= j < N returns exactly what update number NCalls-j returned
\* when NCalls-j >= P and is unavailable when NCalls-j < P; warmup calls store
\* nothing in the output buffer.  For P = N = 3 fed [5,4,3,6] the results
\* are None, None, 4, 13/3, and then get(-1) = 4 and get(-2) is unavailable.
C5_MAHistoryAlignment ==
    kind = "MA" =>
        /\ NCalls >= PeriodP =>
              \A j \in 0..(CapN - 1) :
                  Get(-j) = IF NCalls - j >= PeriodP THEN rets[NCalls - j] ELSE None
        /\ NCalls < PeriodP => ind.data.cnt = 0
        /\ ind.data.cnt <= NCalls
        /\ (PeriodP = 3 /\ CapN = 3 /\ inputs = <<Num(5), Num(4), Num(3), Num(6)>>) =>
              /\ rets = <<None, None, Some(Num(4)), Some(Frac(13, 3))>>
              /\ Get(-1) = Some(Num(4))
              /\ Get(-2) = None

\* the scenario of the claim: MA<3,3> fed [5,4,3,6]
C5_Witness ==
    /\ kind = "MA"
    /\ PeriodP = 3
    /\ CapN = 3
    /\ inputs = <<Num(5), Num(4), Num(3), Num(6)>>
    /\ Get(0) = Some(Frac(13, 3))

---------------------------------------------------------------------------
(* Claims on the update / get contract of the indicators *)

\* number of the first n updates since reset that returned a value
NumSome(n) == Cardinality({i \in 1..n : is_some(rets[i])})

C7_UnavailableIsNone ==
    (\A i \in 1..NCalls : is_none(rets[i])) =>
        \A key \in Keys : is_none(Get(key))

\* C8: the lifecycle is one-directional: once an update has returned an
\* available output, every later update before the next reset also returns
\* an available output, whatever the inputs.
C8_OneDirectional ==
    \A i \in 1..NCalls : \A j \in 1..NCalls :
        (i < j /\ is_some(rets[i])) => is_some(rets[j])

\* C9: immediately after update returns r, get(0) equals r: both
\* unavailable, or both the same value.
C9_GetZeroIsResult == NCalls > 0 => Get(0) = rets[NCalls]

\* a sub-indicator whose value the composite's formula uses returns
\* unavailable when the composite x is updated with value
SubUnavailable(x, value) ==
    CASE kind = "MACD" ->
            \/ is_none(EMA_update(x.short_ema, value).out)
            \/ is_none(EMA_update(x.long_ema, value).out)
      [] kind = "BollingerBands" ->
            \/ is_none(MA_update(x.ma, value).out)
            \/ is_none(STDEV_update(x.stdev, value).out)
      [] kind = "DEMA" ->
            LET e1 == EMA_update(x.first_ema, value).out IN
            \/ is_none(e1)
            \/ is_none(EMA_update(x.second_ema, unwrap(e1)).out)
      [] kind = "TEMA" ->
            LET e1 == EMA_update(x.first_ema, value).out
                e2 == EMA_update(x.second_ema, unwrap(e1)).out
            IN  \/ is_none(e1)
                \/ is_none(e2)
                \/ is_none(EMA_update(x.third_ema, unwrap(e2)).out)
      [] kind = "TRIMA" ->
            LET m1 == MA_update(x.first_ma, value).out IN
            \/ is_none(m1)
            \/ is_none(MA_update(x.second_ma, unwrap(m1)).out)
      [] kind = "NATR" -> is_none(ATR_update(x.atr, value).out)
      [] kind = "STOCH" -> is_none(MA_get(STOCH_update(x, value).self.k_ma, 0))
      [] OTHER -> FALSE

\* C10: on every update of a composite indicator (MACD, BollingerBands,
\* DEMA, TEMA, TRIMA, NATR, STOCH), if a sub-indicator whose value the
\* composite's formula uses is unavailable at that step, the composite's
\* update returns unavailable for that step.
C10_CompositePropagation ==
    [][(kind \in CompositeKinds /\ NCalls' = NCalls + 1
            /\ SubUnavailable(ind, inputs'[NCalls']))
        => is_none(rets'[NCalls'])]_vars

---------------------------------------------------------------------------
(* Claims on warmup and reset of composites *)

Max(a, b) == IF a > b THEN a ELSE b

\* max(SHORT, LONG) of the MACD under exercise
MaxSL == Max(ind.short_ema.P, ind.long_ema.P)

HasReset == steps > NCalls /\ ~panicked

\* C14: reset of a composite resets every sub-indicator it owns: after
\* reset, whatever was processed before, update returns None again for the
\* full original warmup: max(SHORT,LONG)-1 calls for the MACD line and
\* max(SHORT,LONG)+DIFF-2 calls before the signal line, 2P-2 calls for DEMA,
\* P-1 calls for BollingerBands, and a value from the next call on.
C14_TransitiveReset ==
    HasReset =>
        /\ kind = "MACD" =>
               /\ \A i \in 1..NCalls : is_some(rets[i]) <=> i >= MaxSL
               /\ is_some(MACD_get_values(ind, 0).signal)
                      <=> NCalls >= MaxSL + ind.diff_ema.P - 1
        /\ kind = "DEMA" =>
               \A i \in 1..NCalls : is_some(rets[i]) <=> i >= 2 * PeriodP - 1
        /\ kind = "BollingerBands" =>
               \A i \in 1..NCalls : is_some(rets[i]) <=> i >= PeriodP

\* a DEMA of period 2 that had produced a value (still in the storage of its
\* buffer) returns None at the first call after reset
C14_Witness ==
    /\ kind = "DEMA"
    /\ PeriodP = 2
    /\ HasReset
    /\ NCalls = 1
    /\ is_none(rets[1])
    /\ ind.data.data[1] # Num(0)

---------------------------------------------------------------------------
(* Claims that compare the instance with a freshly constructed one *)

\* update and get of an instance x of the kind under exercise
UpdateOf(x, value) ==
    CASE kind = "BaseIndicator" -> BaseIndicator_update(x, value)
      [] kind = "MA" -> MA_update(x, value)
      [] kind = "EMA" -> EMA_update(x, value)
      [] kind = "MV" -> MV_update(x, value)
      [] kind = "MACD" -> MACD_update(x, value)
      [] kind = "BollingerBands" -> BollingerBands_update(x, value)

GetOf(x, key) ==
    CASE kind = "BaseIndicator" -> BaseIndicator_get(x, key)
      [] kind = "MACD" -> MACD_get(x, key)
      [] OTHER -> BaseIndicator_get(x.data, key)

\* a new instance with the const generics of the one under exercise
Fresh ==
    IF kind = "MACD"
    THEN New(kind, ind.short_ema.P, ind.long_ema.P, ind.diff_ema.P, CapN)
    ELSE New(kind, PeriodP, 1, 1, CapN)

\* the instance x after the updates seq, and what they returned
RECURSIVE Replay(_, _)
Replay(x, seq) ==
    IF seq = <<>>
    THEN [self |-> x, outs |-> <<>>]
    ELSE LET before == Replay(x, SubSeq(seq, 1, Len(seq) - 1))
             r == UpdateOf(before.self, seq[Len(seq)])
         IN  [self |-> r.self, outs |-> Append(before.outs, r.out)]

\* C12: for MA, EMA, MV, MACD and BollingerBands that have processed any
\* input sequence, reset() followed by an input sequence yields exactly the
\* update results and the get(key) results that a freshly constructed
\* instance yields for the same sequence.
C12_IdempotentReset ==
    (kind \in ResetKinds /\ HasReset) =>
        LET fresh == Replay(Fresh, inputs) IN
        /\ rets = fresh.outs
        /\ \A key \in Keys :
               IF kind = "MACD"
               THEN MACD_get_values(ind, key) = MACD_get_values(fresh.self, key)
               ELSE Get(key) = GetOf(fresh.self, key)

\* an MA of period 2 that had produced a value before the reset (it is still
\* in the storage of its buffer) is warming up again after it
C12_Witness ==
    /\ kind = "MA"
    /\ PeriodP = 2
    /\ HasReset
    /\ NCalls = 1
    /\ is_none(rets[1])
    /\ Get(0) = None
    /\ ind.data.data[1] # Num(0)

\* C13: after BaseIndicator.reset() followed by any appends, every get(key)
\* returns exactly what a new buffer of the same capacity returns after the
\* same appends: no value appended before the reset is readable, although
\* reset does not clear the storage slots; the capacity is unchanged.
C13_ResetAsNew ==
    (kind = "BaseIndicator" /\ HasReset) =>
        LET fresh == Replay(BaseIndicator_new(CapN, 0), inputs).self IN
        /\ \A key \in Keys :
               BaseIndicator_get(ind, key) = BaseIndicator_get(fresh, key)
        /\ BaseN(ind) = BaseN(fresh)

\* after a reset and one append, a slot still stores a value appended before
\* the reset, and only the new value is readable
C13_Witness ==
    /\ kind = "BaseIndicator"
    /\ CapN = 2
    /\ HasReset
    /\ NCalls = 1
    /\ ind.data[2] # 0
    /\ ind.data[2] # inputs[1]
    /\ Get(0) = Some(inputs[1])
    /\ Get(-1) = None

---------------------------------------------------------------------------
(* Claims on totality *)

\* keys at and next to the ends of i32, and the keys around the capacity
Keys32 == Keys \cup {I32Min, I32Min + 1, I32Max - 1, I32Max}

\* C15: for every capacity N >= 1 and period P >= 1, every call of update,
\* of get for any 32-bit signed key, and of reset returns normally in every
\* reachable state: no index out of range, no unwrap of None (MV reading its
\* inner MA, RSI reading its gains average), no integer overflow or negative
\* modulus in the cursor arithmetic of BaseIndicator.get.
C15_Totality ==
    /\ ~panicked
    /\ \A key \in Keys32 : ~BaseIndicator_get_panics(OutBuf, key)
    /\ kind = "MV" => \A v \in Prices : ~MV_update_panics(ind, v)
    /\ kind = "RSI" => \A v \in Bars : ~RSI_update_panics(ind, v)
    /\ kind = "BaseIndicator" => ~BaseIndicator_update_panics(ind)

\* an MV of period >= 2 has read the mean of its inner MA again after a reset
C15_Witness ==
    /\ kind = "MV"
    /\ PeriodP >= 2
    /\ HasReset
    /\ NCalls = PeriodP
    /\ is_some(rets[NCalls])
    /\ Get(I32Min) = None

\* C16: a zero-sized period or capacity (P = 0 or N = 0) is rejected when
\* the indicator is constructed; it never leads to a failure at update time.
C16_ZeroSizeRejected ==
    (CapN = 0 \/ (kind = "MA" /\ PeriodP = 0)) => ~panicked

---------------------------------------------------------------------------
(* Claims on AD *)

\* the last bar passed to update had high == low
ZeroRange == NCalls > 0 /\ FEq(inputs[NCalls].high, inputs[NCalls].low)

\* the accumulated value before the last update
ADBefore == IF NCalls > 1 THEN unwrap(rets[NCalls - 1]) ELSE Num(0)

---------------------------------------------------------------------------
(* Claims on MACD *)

\* the MACD after the first i inputs given since construction or reset
MACDAfter(i) == Replay(Fresh, SubSeq(inputs, 1, i)).self

\* the triples get_values(0) shows after each update of seq, starting from x
RECURSIVE MACD_written(_, _)
MACD_written_from(x1, rest) == {MACD_get_values(x1, 0)} \cup MACD_written(x1, rest)
MACD_written(x, seq) ==
    IF seq = <<>> THEN {}
    ELSE MACD_written_from(MACD_update(x, Head(seq)).self, Tail(seq))

\* C18: MACD<SHORT, LONG, DIFF, S>.update returns None, and get(0) returns
\* None, for exactly the first max(SHORT, LONG) - 1 calls since construction
\* or reset; from call number max(SHORT, LONG) on update returns
\* Some(short EMA minus long EMA of that step).
C18_MACDLineWarmup ==
    kind = "MACD" =>
        /\ \A i \in 1..NCalls : is_some(rets[i]) <=> i >= MaxSL
        /\ NCalls < MaxSL => Get(0) = None
        /\ NCalls >= MaxSL =>
              /\ rets[NCalls] = Some(FSub(unwrap(EMA_get(ind.short_ema, 0)),
                                          unwrap(EMA_get(ind.long_ema, 0))))
              /\ Get(0) = rets[NCalls]

\* the first value of the MACD line, on the call that ends the warmup, after
\* the two EMAs have come to differ
C18_Witness ==
    /\ kind = "MACD"
    /\ MaxSL = 2
    /\ NCalls = 2
    /\ is_none(rets[1])
    /\ is_some(rets[2])
    /\ rets[2] # Some(Num(0))

\* C19: the signal line needs max(SHORT, LONG) + DIFF - 1 inputs:
\* get_values(0).signal is None after every update numbered below
\* max(SHORT, LONG) + DIFF - 1, while get_values(0).macd is already Some from
\* update max(SHORT, LONG) on, and is Some after that update and every
\* later one.
C19_MACDSignalWarmup ==
    kind = "MACD" =>
        /\ is_some(MACD_get_values(ind, 0).signal)
              <=> NCalls >= MaxSL + ind.diff_ema.P - 1
        /\ is_some(MACD_get_values(ind, 0).hist)
              <=> NCalls >= MaxSL + ind.diff_ema.P - 1
        /\ is_some(MACD_get_values(ind, 0).macd) <=> NCalls >= MaxSL

\* the MACD line is there and the signal line is not yet
C19_Witness ==
    /\ kind = "MACD"
    /\ ind.diff_ema.P >= 2
    /\ NCalls = MaxSL
    /\ is_some(MACD_get_values(ind, 0).macd)
    /\ is_none(MACD_get_values(ind, 0).signal)

\* C20: in every reachable state and for every key at which get_values(key)
\* has macd, signal and hist all available, hist equals macd minus signal
\* and the three values are those one update call has written.
C20_MACDComponents ==
    kind = "MACD" =>
        LET written == MACD_written(Fresh, inputs)
        IN \A key \in Keys :
              LET v == MACD_get_values(ind, key)
              IN (is_some(v.macd) /\ is_some(v.signal) /\ is_some(v.hist)) =>
                    /\ unwrap(v.hist) = FSub(unwrap(v.macd), unwrap(v.signal))
                    /\ v \in written

\* an earlier call's triple with a histogram off zero, read back at key -1
C20_Witness ==
    /\ kind = "MACD"
    /\ NCalls >= 2
    /\ LET v == MACD_get_values(ind, -1)
       IN /\ is_some(v.macd) /\ is_some(v.signal) /\ is_some(v.hist)
          /\ unwrap(v.hist) # Num(0)
          /\ v # MACD_get_values(ind, 0)
          /\ v = MACD_get_values(MACDAfter(NCalls - 1), 0)

---------------------------------------------------------------------------
(* Claims on single indicators *)

\* an EMA run over a sequence of inputs: the instance and what update returned
RECURSIVE EMA_run(_, _)
EMA_run_from(r, rest) ==
    LET t == EMA_run(r.self, rest) IN [self |-> t.self, outs |-> <<r.out>> \o t.outs]
EMA_run(e, seq) ==
    IF seq = <<>> THEN [self |-> e, outs |-> <<>>]
    ELSE EMA_run_from(EMA_update(e, Head(seq)), Tail(seq))

\* the values of the available entries of a sequence of outputs, in order
RECURSIVE Available(_)
Available(outs) ==
    IF outs = <<>> THEN <<>>
    ELSE IF is_some(Head(outs)) THEN <<unwrap(Head(outs))>> \o Available(Tail(outs))
    ELSE Available(Tail(outs))

\* two EMAs that no call can tell apart: same count, same running value, same
\* history at every key (array slots left over from before a reset are not read)
EMA_same(a, b) ==
    /\ a.length = b.length
    /\ a.prev = b.prev
    /\ \A key \in Keys : EMA_get(a, key) = EMA_get(b, key)

\* C21: DEMA<P, S>.update returns None, and get(0) returns None, for exactly
\* the first 2P-2 calls since construction or reset, and returns Some from
\* call number 2P-1 on; the second EMA is fed only the available outputs of
\* the first.
C21_DEMAWarmup ==
    kind = "DEMA" =>
        /\ \A i \in 1..NCalls : is_some(rets[i]) <=> i >= 2 * PeriodP - 1
        /\ NCalls < 2 * PeriodP - 1 => Get(0) = None
        /\ NCalls >= 2 * PeriodP - 1 => Get(0) = rets[NCalls]
        /\ LET first == EMA_run(EMA_new(PeriodP, 1), inputs)
           IN /\ EMA_same(ind.first_ema, first.self)
              /\ EMA_same(ind.second_ema,
                          EMA_run(EMA_new(PeriodP, 1), Available(first.outs)).self)

\* the first EMA has a value, the second has been fed it and has none yet
C21_Witness ==
    /\ kind = "DEMA"
    /\ PeriodP = 3
    /\ NCalls = 4
    /\ is_none(rets[4])
    /\ Get(0) = None
    /\ is_some(EMA_get(ind.first_ema, 0))
    /\ ind.second_ema.length = 2

\* the three bands are numbers
BandsAreNumbers(o) ==
    is_some(o) => IsNum(unwrap(o).upper) /\ IsNum(unwrap(o).middle) /\ IsNum(unwrap(o).lower)

\* C22: BollingerBands<P, S>.update returns None, and get(0) returns None,
\* for exactly the first P-1 calls since construction or reset and returns
\* Some from the P-th call on; the bands it returns are never computed from
\* a warmup placeholder (NaN) of the STDEV sub-indicator.
C22_BollingerWarmup ==
    kind = "BollingerBands" =>
        /\ \A i \in 1..NCalls : (is_some(rets[i]) <=> i >= PeriodP) /\ BandsAreNumbers(rets[i])
        /\ NCalls < PeriodP => Get(0) = None
        /\ \A key \in Keys : BandsAreNumbers(Get(key))
        /\ NCalls >= PeriodP =>
              LET m == unwrap(MA_get(ind.ma, 0))
                  s == unwrap(STDEV_get(ind.stdev, 0))
              IN /\ IsNum(s)
                 /\ rets[NCalls] = Some([upper |-> FAdd(m, FMul(s, ind.num_std_dev)),
                                         middle |-> m,
                                         lower |-> FSub(m, FMul(s, ind.num_std_dev))])
                 /\ Get(0) = rets[NCalls]
        /\ (NCalls >= 1 /\ NCalls < PeriodP) => STDEV_get(ind.stdev, 0) = Some(NaN)

\* the first bands, after calls during which STDEV held its placeholder
C22_Witness ==
    /\ kind = "BollingerBands"
    /\ PeriodP = 2
    /\ NCalls = 2
    /\ is_none(rets[1])
    /\ is_some(rets[2])
    /\ FGt(unwrap(rets[2]).upper, unwrap(rets[2]).middle)

\* C23: for MOM<P, S> and any input sequence x_1, x_2, ... since
\* construction or reset, update number i returns None for i <= P and
\* Some(x_i - x_(i-P)) for every i > P, however often the P-slot price ring
\* has wrapped.
C23_MOMDifference ==
    kind = "MOM" =>
        \A i \in 1..NCalls :
            rets[i] = IF i <= PeriodP THEN None
                      ELSE Some(FSub(inputs[i], inputs[i - PeriodP]))

\* the ring of two slots has wrapped twice and the price compared with was
\* itself written after the warmup
C23_Witness ==
    /\ kind = "MOM"
    /\ PeriodP = 2
    /\ NCalls = 5
    /\ inputs[3] # inputs[1]
    /\ rets[5] = Some(FSub(inputs[5], inputs[3]))
    /\ rets[5] # Some(FSub(inputs[5], inputs[1]))

\* C24: when the value stored P updates earlier is exactly 0, ROC.update
\* returns None instead of dividing, but still replaces that stored value by
\* the new input and advances the window, so the next update is computed
\* against the value that followed the zero.
C24_ROCZeroDenominator ==
    kind = "ROC" =>
        /\ \A i \in (PeriodP + 1)..NCalls :
              rets[i] = IF FEq(inputs[i - PeriodP], Num(0)) THEN None
                        ELSE Some(FMul(FDiv(FSub(inputs[i], inputs[i - PeriodP]),
                                            inputs[i - PeriodP]), Num(100)))
        /\ NCalls >= PeriodP =>
              /\ ind.pos = NCalls % PeriodP
              /\ \A j \in 0..(PeriodP - 1) :
                    ind.prevs[((NCalls - 1 - j) % PeriodP) + 1] = inputs[NCalls - j]

\* a zero met as old value, then the update after it measured against the
\* value that followed the zero
C24_Witness ==
    /\ kind = "ROC"
    /\ PeriodP = 2
    /\ NCalls = 4
    /\ inputs[1] = Num(0)
    /\ inputs[2] = Num(1)
    /\ inputs[4] = Num(2)
    /\ is_none(rets[3])
    /\ rets[4] = Some(Num(100))

\* value / previous - 1
ROIOf(value, previous) == FSub(FDiv(value, previous), Num(1))

\* C25: ROI.update returns None on the first call and on every
\* call whose previous input was exactly 0 (recording the new input as the
\* previous value), and on every other call returns Some(value / previous - 1);
\* after an input of 0 exactly one update is skipped before outputs resume.
C25_ROIZeroPrevious ==
    kind = "ROI" =>
        /\ \A i \in 1..NCalls :
              rets[i] = IF i = 1 \/ FEq(inputs[i - 1], Num(0)) THEN None
                        ELSE Some(ROIOf(inputs[i], inputs[i - 1]))
        /\ NCalls >= 1 => ind.prev = inputs[NCalls]

---------------------------------------------------------------------------
(* Warmup of the composites under repeated update, without reset *)

WarmupKinds == {"MACD", "BollingerBands", "DEMA", "TEMA", "TRIMA"}

\* the longest run of update calls followed: three stages of the longest period
WarmupCap == 3 * MaxP

\* Indicator::update of the composite
WarmupUpdateOf(x, value) ==
    CASE kind = "MACD" -> MACD_update(x, value)
      [] kind = "BollingerBands" -> BollingerBands_update(x, value)
      [] kind = "DEMA" -> DEMA_update(x, value)
      [] kind = "TEMA" -> TEMA_update(x, value)
      [] kind = "TRIMA" -> TRIMA_update(x, value)

\* the last update returned an output (for MACD: and the signal line is there)
Ready ==
    /\ NCalls > 0
    /\ is_some(rets[NCalls])
    /\ kind = "MACD" => is_some(MACD_get_values(ind, 0).signal)

\* no output has been returned yet and the run is not at its cap
Warming == kind \in WarmupKinds /\ ~Ready /\ NCalls < WarmupCap

\* update is called again while no output has been returned
WarmupUpdate ==
    /\ Warming
    /\ \E v \in FlatOrJump :
          LET r == WarmupUpdateOf(ind, v)
          IN /\ ind' = r.self
             /\ inputs' = Append(inputs, v)
             /\ rets' = Append(rets, r.out)
             /\ steps' = steps + 1
             /\ UNCHANGED <<kind, panicked>>

\* the caller's part of WarmupUpdate: one more call is made. update returns
\* on every call (it is total), so the call is possible whenever Warming
\* holds, and fairness of the caller is fairness of WarmupUpdate.
KeepCalling == Warming /\ steps' = steps + 1

InitWarmup == Init /\ kind \in WarmupKinds
SpecWarmup == InitWarmup /\ [][WarmupUpdate]_vars /\ WF_steps(KeepCalling)

\* C26: for each composite (MACD including its signal line, BollingerBands,
\* DEMA, TEMA, TRIMA) and any input sequence, if update keeps being called
\* without reset, then after finitely many calls update returns an available
\* output.
C26_WarmupCompletes == <>Ready

\* the longest warmup: TEMA of period 3 returns its first output on call 7
C26_Witness ==
    /\ kind = "TEMA"
    /\ PeriodP = 3
    /\ NCalls = 7
    /\ Ready
    /\ is_none(rets[6])

---------------------------------------------------------------------------
(* Claim on memory *)

\* C27: all buffers of every indicator are fixed-size and allocated once at
\* construction, and neither update nor reset allocates or reallocates
\* memory during the indicator's lifetime (including KAMA, whose price window
\* is a Vec rebuilt in reset).
C27_NoAllocationAfterConstruction ==
    kind = "KAMA" => ind.allocs = 1 /\ Len(ind.prices) = PeriodP + 1

---------------------------------------------------------------------------
(* Claims on the averages' arithmetic *)

\* the sum of seq[a..b], added from the left
RECURSIVE SumOf(_, _, _)
SumOf(seq, a, b) == IF a > b THEN Num(0) ELSE FAdd(SumOf(seq, a, b - 1), seq[b])

\* C28: for MA<P, N> and any input sequence, the output of update number
\* k >= P (counted since construction or the last reset) is the sum of
\* inputs k-P+1..k divided by P; the running accumulator always equals the
\* sum of the last min(k, P) inputs since the reset, and no input stored
\* before a reset is ever added to or subtracted from it.
C28_MARollingSum ==
    kind = "MA" =>
        /\ \A k \in PeriodP..NCalls :
              rets[k] = Some(FDiv(SumOf(inputs, k - PeriodP + 1, k), Num(PeriodP)))
        /\ ind.accum = SumOf(inputs, Max(1, NCalls - PeriodP + 1), NCalls)

\* the same on the input sequences without NaN
C28_FiniteInputs ==
    (\A i \in 1..NCalls : IsNum(inputs[i])) => C28_MARollingSum

\* the seed and the recurrence of EMA<P, S>, alpha being smoothing / (P + 1)
EMASeedAndRecurrence ==
    /\ \E smoothing \in Smoothings :
          ind.alpha = FDiv(smoothing, FAdd(Num(1), Num(PeriodP)))
    /\ \A k \in 1..NCalls :
          rets[k] = IF k < PeriodP THEN None
                    ELSE IF k = PeriodP
                    THEN Some(FDiv(SumOf(inputs, 1, PeriodP), Num(PeriodP)))
                    ELSE Some(FAdd(FMul(inputs[k], ind.alpha),
                                   FMul(unwrap(rets[k - 1]), FSub(Num(1), ind.alpha))))

\* EMA<1, S> built by new(): alpha = 2 / (1 + 1)
DefaultPeriodOne == PeriodP = 1 /\ ind.alpha = FDiv(Num(2), FAdd(Num(1), Num(1)))

---------------------------------------------------------------------------
(* Claim on STOCH *)

\* the const generic D of STOCH<K, D, S>
StochD == Len(ind.k_ma.prevs)

\* the sum of the %K values returned by the calls a..b, added from the left
RECURSIVE KSum(_, _)
KSum(a, b) == IF a > b THEN Num(0) ELSE FAdd(KSum(a, b - 1), unwrap(rets[b]).k)

---------------------------------------------------------------------------
(* Claim on the degenerate range of STOCH *)

\* the highest high and the lowest low of the K bars ending at call i are
\* both v: no high above v, no low below v, some high and some low equal to v
RangeIsPoint(i, v) ==
    /\ \A m \in (i - PeriodP + 1)..i :
          ~FGt(inputs[m].high, v) /\ ~FLt(inputs[m].low, v)
    /\ \E m \in (i - PeriodP + 1)..i : inputs[m].high = v
    /\ \E m \in (i - PeriodP + 1)..i : inputs[m].low = v

---------------------------------------------------------------------------
(* Claim on the history depth of MA and EMA *)

\* C32: for the same period and the same inputs, the update results of
\* MA<P, 1> and MA<P, N> (and of EMA<P, 1> and EMA<P, N>) are the same at
\* every call, get(0) of the depth-1 instance equals get(0) of the deeper
\* one, and get(0) of the depth-1 instance right after an update is what
\* that update returned.
C32_DepthIndependence ==
    kind \in DepthKinds =>
        /\ \A i \in 1..NCalls : rets[i].shallow = rets[i].deep
        /\ PairGet(ind, 0).shallow = PairGet(ind, 0).deep
        /\ NCalls > 0 => PairGet(ind, 0).shallow = rets[NCalls].shallow

\* MA<2, 1> beside MA<2, 3>: three outputs, so that the buffer of depth 1
\* has wrapped twice and the deeper one not yet, and both return the mean of
\* the last two inputs
C32_Witness ==
    /\ kind = "MAPair"
    /\ Len(ind.deep.prevs) = 2
    /\ BaseN(ind.deep.data) = 3
    /\ inputs = <<Num(3), Num(5), Num(4), Num(6)>>
    /\ rets[2].deep = Some(Num(4))
    /\ rets[4].shallow = Some(Num(5))
    /\ ind.shallow.data.filled
    /\ ~ind.deep.data.filled
    /\ PairGet(ind, -1).shallow # PairGet(ind, -1).deep

---------------------------------------------------------------------------
(* Claim on the cursor of BaseIndicator *)

\* C33: with k the number of appends to a BaseIndicator<T, N> since
\* construction or the last reset, pos = -1 and filled = false when k = 0,
\* pos = (k - 1) mod N when k >= 1, so -1 <= pos <= N - 1 always, and filled
\* is true exactly when k > N.
C33_CursorInvariant ==
    kind = "BaseIndicator" =>
        /\ NCalls = 0 => ind.pos = -1 /\ ~ind.filled
        /\ NCalls >= 1 => ind.pos = (NCalls - 1) % CapN
        /\ ind.pos \in (-1)..(CapN - 1)
        /\ ind.filled <=> NCalls > CapN

\* a BaseIndicator<T, 2> that was reset and then appended to three times:
\* the cursor has wrapped back to slot 0 and the flag is set again
C33_Witness ==
    /\ kind = "BaseIndicator"
    /\ CapN = 2
    /\ HasReset
    /\ NCalls = 3
    /\ ind.pos = 0
    /\ ind.filled

====
